---- MODULE Spec2Model ----
(***************************************************************************)
(* A model of streamlit_app.py, the Software Asset Management telemetry    *)
(* dashboard.  One state is the Python namespace of the script between two *)
(* of its sections, together with the files on disk, the st.cache_data     *)
(* memo of load_sam, NumPy's global random stream and the widget values.   *)
(* Streamlit re-executes the whole script, top to bottom, after every      *)
(* widget change; an uncaught exception ends the pass.                     *)
(*                                                                         *)
(* Conventions.                                                            *)
(*  - Text that the search box looks into is a sequence of one-character   *)
(*    strings, so that substring and regular-expression matching can be    *)
(*    computed.                                                            *)
(*  - A cell of an optional column is <<>> (NaN / NaT) or <<v>>.           *)
(*  - A table is [cols |-> set of column names, rows |-> sequence of       *)
(*    functions from cols to cells].                                       *)
(*  - Dates are whole days relative to pd.Timestamp.today().normalize().   *)
(*  - Money is exact (integers, or integers in a stated fraction of a      *)
(*    dollar); floating-point rounding is not modelled.                    *)
(***************************************************************************)
EXTENDS Integers, Sequences, FiniteSets, TLC

VARIABLES
    enhanced_csv,    \* telemetry_data_enhanced.csv on disk (MISSING or a table)
    legacy_csv,      \* telemetry_data.csv on disk (MISSING or a table)
    cloud_csv,       \* cloud_spend.csv on disk (<<>> when absent, else <<rows>>)
    rng,             \* np.random's global stream: the raw draws still to come
    synth_noise,     \* the factors default_rng(7) yields in synth_spend_timeseries
    cache,           \* st.cache_data memo of load_sam: <<>> or <<table>>
    reads,           \* the files the last run of load_sam's body opened, in order
    pc,              \* the section of the script that runs next
    sam,             \* line 60
    src_tag,         \* line 67
    k3_unused,       \* line 110, the "Unused Licenses" tile
    monthly,         \* lines 126-130
    anomalies,       \* line 131
    anomaly_banner,  \* lines 132-135: "warning", "success" or "" (not yet shown)
    vendor_filter,   \* line 162
    location_filter, \* line 163
    query,           \* line 169
    filtered_df,     \* lines 170-180
    caption,         \* line 181: the two counts shown
    budget,          \* line 192
    savings_opportunity, \* line 198
    compliance_rate, \* line 203, as the exact fraction [num, den]
    renewals_df,     \* lines 228-229
    df_cost,         \* lines 260-261
    comp,            \* lines 274-278
    sec_sample,      \* line 315: the rows of the inventory table, as shown
    rightsizing,     \* line 415: the MonthlySavings($) column of the simulated table
    rec_rate,        \* line 332
    dwn_rate,        \* line 333
    scenario_total,  \* line 345, in thousandths of a dollar (<<>>: NaN)
    rendered         \* the input widgets the current pass has drawn so far

files   == <<enhanced_csv, legacy_csv, cloud_csv, synth_noise>>
widgets == <<vendor_filter, location_filter, query, budget, rec_rate, dwn_rate>>
tab1    == <<k3_unused, monthly, anomalies, anomaly_banner, filtered_df, caption>>
tab2    == <<savings_opportunity, compliance_rate, renewals_df, df_cost, comp>>
tab3    == <<sec_sample>>
tab4    == <<scenario_total, rightsizing>>
vars    == <<files, rng, cache, reads, pc, sam, src_tag, tab1, tab2, tab3, tab4,
             widgets, rendered>>

----------------------------------------------------------------------------
(* Text *)

Zoom         == <<"Z","o","o","m">>
OracleDB     == <<"O","r","a","c","l","e"," ","D","B">>
Microsoft365 == <<"M","i","c","r","o","s","o","f","t"," ","3","6","5">>
AdobeCC      == <<"A","d","o","b","e"," ","C","C">>
SQLServer    == <<"S","Q","L"," ","S","e","r","v","e","r">>
Salesforce   == <<"S","a","l","e","s","f","o","r","c","e">>
Acme         == <<"A","c","m","e">>

\* NaN of a numeric or text column, NaT of a date column.
NA == <<>>

Some(v) == <<v>>

IsNA(cell) == cell = NA

Max(a, b) == IF a >= b THEN a ELSE b

----------------------------------------------------------------------------
(* Tables *)

RequiredCols ==
    {"EmployeeID", "DeviceID", "Vendor", "Product", "Location",
     "EntitledLicenses", "ActualUsage", "DeploymentType"}

OptionalCols ==
    {"CostPerLicense", "LastUsedDays", "Department", "ContractEndDate",
     "IsEOL", "KnownVulns", "DaysSincePatch", "Edition", "LicenseType"}

MISSING == [cols |-> {"<no such file>"}, rows |-> <<>>]

EmptyDF == [cols |-> {}, rows |-> <<>>]

len(df) == Len(df.rows)

\* df[name] = values, for a new or an existing column; values has one entry
\* per row.
SetCol(df, name, values) ==
    [cols |-> df.cols \cup {name},
     rows |-> [i \in 1..len(df) |->
                 [c \in df.cols \cup {name} |->
                     IF c = name THEN values[i] ELSE df.rows[i][c]]]]

\* df[mask]: the rows whose entry in the boolean sequence mask is TRUE, in order.
RECURSIVE SelectRows(_, _)
SelectRows(rows, mask) ==
    IF rows = <<>> THEN <<>>
    ELSE (IF Head(mask) THEN <<Head(rows)>> ELSE <<>>)
         \o SelectRows(Tail(rows), Tail(mask))

Mask(df, mask) == [cols |-> df.cols, rows |-> SelectRows(df.rows, mask)]

\* Series.sum() of a sequence of numbers.
RECURSIVE SumSeq(_)
SumSeq(s) == IF s = <<>> THEN 0 ELSE Head(s) + SumSeq(Tail(s))

----------------------------------------------------------------------------
(* load_sam, lines 12-44 *)

Today == 0

\* cost_map, lines 21-22, with .fillna(25) of line 23 for every other vendor.
cost_map(vendor) ==
    CASE vendor = Microsoft365 -> 15
      [] vendor = AdobeCC      -> 25
      [] vendor = OracleDB     -> 500
      [] vendor = SQLServer    -> 300
      [] vendor = Zoom         -> 12
      [] vendor = Salesforce   -> 120
      [] OTHER                 -> 25

\* np.random.randint(low, high): one raw draw mapped into the half-open
\* range [low, high).
randint(low, high, raw) == low + (raw % (high - low))

\* The i-th raw draw of the stream (which repeats after its last element).
Draw(stream, i) == stream[((i - 1) % Len(stream)) + 1]

\* pd.read_csv(path, parse_dates = dates): raises when the file is missing or
\* a column named in parse_dates is not in the header.
read_csv_raises(file, dates) == file = MISSING \/ ~(dates \subseteq file.cols)

\* lines 20-23
BackfillCost(df) ==
    IF "CostPerLicense" \in df.cols THEN df
    ELSE SetCol(df, "CostPerLicense",
                [i \in 1..len(df) |-> Some(cost_map(df.rows[i]["Vendor"]))])

\* df[name] = constant, whether or not the column is there.
OverwriteConst(df, name, const) ==
    SetCol(df, name, [i \in 1..len(df) |-> Some(const)])

\* if name not in df.columns: df[name] = constant (lines 24-27 and 33-42)
BackfillConst(df, name, const) ==
    IF name \in df.cols THEN df
    ELSE SetCol(df, name, [i \in 1..len(df) |-> Some(const)])

\* lines 28-32
BackfillContractEndDate(df, stream) ==
    IF "ContractEndDate" \notin df.cols
    THEN SetCol(df, "ContractEndDate",
                [i \in 1..len(df) |-> Some(Today + randint(30, 365, Draw(stream, i)))])
    ELSE SetCol(df, "ContractEndDate",
                [i \in 1..len(df) |->
                    IF IsNA(df.rows[i]["ContractEndDate"])
                    THEN Some(Today)
                    ELSE df.rows[i]["ContractEndDate"]])

\* The except branch, lines 18-43, on the table read from the legacy file.
Backfill(df, stream) ==
    LET d1 == BackfillCost(df)
        d2 == BackfillConst(d1, "LastUsedDays", 0)
        d3 == BackfillConst(d2, "Department", "Unknown")
        d4 == BackfillContractEndDate(d3, stream)
        d5 == BackfillConst(d4, "IsEOL", 0)
        d6 == BackfillConst(d5, "KnownVulns", 0)
        d7 == BackfillConst(d6, "DaysSincePatch", 30)
        d8 == BackfillConst(d7, "Edition", "Standard")
        d9 == BackfillConst(d8, "LicenseType", "Subscription")
    IN  SetCol(d9, "__enhanced__", [i \in 1..len(d9) |-> FALSE])

\* TRUE when load_sam raises: the enhanced read failed and the legacy read
\* fails too (line 18 is not inside a try).
load_sam_raises(enh, leg) ==
    read_csv_raises(enh, {"ContractEndDate"}) /\ read_csv_raises(leg, {})

\* TRUE when the except branch runs.
load_sam_falls_back(enh) == read_csv_raises(enh, {"ContractEndDate"})

\* The read_csv calls of one run of load_sam, in order (lines 15 and 18).
load_sam_reads(enh) ==
    IF load_sam_falls_back(enh)
    THEN <<"telemetry_data_enhanced.csv", "telemetry_data.csv">>
    ELSE <<"telemetry_data_enhanced.csv">>

\* The table load_sam returns when it does not raise.
load_sam(enh, leg, stream) ==
    IF ~load_sam_falls_back(enh)
    THEN SetCol(enh, "__enhanced__", [i \in 1..len(enh) |-> TRUE])
    ELSE Backfill(leg, stream)

\* The number of raw draws load_sam takes from np.random (line 30).
load_sam_draws(enh, leg) ==
    IF load_sam_falls_back(enh) /\ ~read_csv_raises(leg, {})
       /\ "ContractEndDate" \notin leg.cols
    THEN len(leg) ELSE 0

\* The stream after n draws were taken from it.
Advance(stream, n) ==
    [i \in 1..Len(stream) |-> stream[((i - 1 + n) % Len(stream)) + 1]]

----------------------------------------------------------------------------
(* Data quality banner, lines 63-68 *)

\* sam["__enhanced__"].iloc[0] raises IndexError on a table without rows.
banner_raises(df) == len(df) = 0

src_tag_of(df) ==
    IF df.rows[1]["__enhanced__"] THEN "Enhanced dataset" ELSE "Legacy dataset"

----------------------------------------------------------------------------
(* Tab 1: KPI tiles, lines 107-111 *)

idle_threshold == 90

\* (what line 110 would count with > in place of >=)
GreaterThan(cell, n) == ~IsNA(cell) /\ cell[1] > n

\* A comparison with NaN is False.
GreaterEq(cell, n) == ~IsNA(cell) /\ cell[1] >= n

\* (sam["LastUsedDays"] >= idle_threshold), the boolean series of line 110.
idle_mask(df) ==
    [i \in 1..len(df) |-> GreaterEq(df.rows[i]["LastUsedDays"], idle_threshold)]

\* int(mask.sum())
CountTrue(mask) == SumSeq([i \in 1..Len(mask) |-> IF mask[i] THEN 1 ELSE 0])

idle_count(df) == CountTrue(idle_mask(df))

----------------------------------------------------------------------------
(* Tab 1: anomaly alerts, lines 123-135, and synth_spend_timeseries, 80-90 *)

\* skipna value of a numeric cell in a sum
Num(cell) == IF IsNA(cell) THEN 0 ELSE cell[1]

\* (df["EntitledLicenses"] * df["CostPerLicense"]).sum(): NaN products are skipped.
entitled_cost(df) ==
    SumSeq([i \in 1..len(df) |->
              df.rows[i]["EntitledLicenses"] * Num(df.rows[i]["CostPerLicense"])])

months == 12

\* One row per month, Spend = base * (1 + season + noise + spikes); the factor
\* of month i is noise[i] tenths, so Spend is in tenths of a dollar.
synth_spend_timeseries(df, noise) ==
    [i \in 1..months |-> [Month |-> i, Spend |-> entitled_cost(df) * noise[i]]]

\* The distinct months of the cloud table, ascending (groupby sorts its keys).
RECURSIVE SortedSeq(_)
SortedSeq(S) ==
    IF S = {} THEN <<>>
    ELSE LET m == CHOOSE x \in S : \A y \in S : x <= y
         IN  <<m>> \o SortedSeq(S \ {m})

\* cloud.groupby("Month").apply(lambda x: (x.OnDemandCost + x.DiscountedCost).sum())
cloud_monthly(rows) ==
    LET ms == SortedSeq({rows[i].Month : i \in 1..Len(rows)})
    IN  [k \in 1..Len(ms) |->
           [Month |-> ms[k],
            Spend |-> SumSeq([i \in 1..Len(rows) |->
                        IF rows[i].Month = ms[k]
                        THEN rows[i].OnDemandCost + rows[i].DiscountedCost
                        ELSE 0])]]

\* lines 125-128
monthly_of(cloud, df, noise) ==
    IF cloud # <<>> THEN cloud_monthly(cloud[1])
    ELSE synth_spend_timeseries(df, noise)

\* n * (x - mean) for the series s of n spends: the deviation without division.
Dev(s, x) == Len(s) * x - SumSeq(s)

\* Sum of the squared scaled deviations: n^2 * (n - 1) * std^2 (sample std, ddof = 1).
SumSqDev(s) == SumSeq([j \in 1..Len(s) |-> Dev(s, s[j]) * Dev(s, s[j])])

\* (line 130 with >= in place of >)
ReachesThreshold(s, x) ==
    /\ Len(s) >= 2
    /\ Dev(s, x) >= 0
    /\ Dev(s, x) * Dev(s, x) * (Len(s) - 1) >= 4 * SumSqDev(s)

\* x > mean + 2 * std, line 130.  With fewer than two points std is NaN (and
\* with none the mean too), and a comparison with NaN is False.  Otherwise,
\* as std >= 0:  x - mean > 2 std  iff  x - mean > 0 and (x - mean)^2 > 4 std^2.
ExceedsThreshold(s, x) ==
    /\ Len(s) >= 2
    /\ Dev(s, x) > 0
    /\ Dev(s, x) * Dev(s, x) * (Len(s) - 1) > 4 * SumSqDev(s)

Spends(m) == [i \in 1..Len(m) |-> m[i].Spend]

\* line 130: monthly["Anomaly"] = ...
with_anomaly(m) ==
    [i \in 1..Len(m) |->
        [Month |-> m[i].Month, Spend |-> m[i].Spend,
         Anomaly |-> ExceedsThreshold(Spends(m), m[i].Spend)]]

\* line 131: monthly[monthly["Anomaly"]]
anomalies_of(m) == SelectRows(m, [i \in 1..Len(m) |-> m[i].Anomaly])

\* lines 132-135
banner_of(a) == IF a # <<>> THEN "warning" ELSE "success"

----------------------------------------------------------------------------
(* Tab 1: filters and search, lines 159-184 *)

UpperCase == <<"A","B","C","D","E","F","G","H","I","J","K","L","M",
               "N","O","P","Q","R","S","T","U","V","W","X","Y","Z">>

LowerCase == <<"a","b","c","d","e","f","g","h","i","j","k","l","m",
               "n","o","p","q","r","s","t","u","v","w","x","y","z">>

\* Case folding of one character (re.IGNORECASE).
Lower(c) ==
    IF \E i \in 1..26 : UpperCase[i] = c
    THEN LowerCase[CHOOSE i \in 1..26 : UpperCase[i] = c]
    ELSE c

DigitChar == <<"0","1","2","3","4","5","6","7","8","9">>

\* str(n) of a non-negative integer.
RECURSIVE Digits(_)
Digits(n) ==
    IF n < 10 THEN <<DigitChar[n + 1]>>
    ELSE Digits(n \div 10) \o <<DigitChar[(n % 10) + 1]>>

\* .astype(str) of one cell of a searchable column: an integer is rendered in
\* decimal, text stays as it is.
astype_str(col, cell) == IF col = "EmployeeID" THEN Digits(cell) ELSE cell

\* str.strip()
RECURSIVE lstrip(_)
lstrip(t) == IF t # <<>> /\ Head(t) = " " THEN lstrip(Tail(t)) ELSE t

RECURSIVE rstrip(_)
rstrip(t) ==
    IF t # <<>> /\ t[Len(t)] = " " THEN rstrip(SubSeq(t, 1, Len(t) - 1)) ELSE t

\* (line 172 without .strip())
unstripped(t) == t

strip(t) == rstrip(lstrip(t))

\* Series.str.contains(pat, case=False, na=False) has regex=True by default:
\* pat is compiled with re.compile(pat, re.IGNORECASE) and each cell is tried
\* with re.search.  The pattern language modelled is the one the query
\* alphabet can spell: ordinary characters, "." (any character) and "(",
\* which opens a group that nothing in the alphabet can close.
re_compile_raises(pat) == \E k \in 1..Len(pat) : pat[k] = "("

re_match_at(pat, t, start) ==
    \A k \in 1..Len(pat) :
        pat[k] = "." \/ Lower(pat[k]) = Lower(t[start + k])

re_search(pat, t) ==
    \E start \in 0..(Len(t) - Len(pat)) : re_match_at(pat, t, start)

SearchCols == <<"EmployeeID", "DeviceID", "Location", "Vendor", "Product">>

\* lines 173-179: the five masks, ORed
search_mask(df, q) ==
    [i \in 1..len(df) |->
        \E k \in 1..Len(SearchCols) :
            re_search(q, astype_str(SearchCols[k], df.rows[i][SearchCols[k]]))]

\* df[df[col].isin(selection)]
isin(df, col, selection) ==
    Mask(df, [i \in 1..len(df) |-> df.rows[i][col] \in selection])

\* lines 164-168
base_filtered_of(df, vf, lf) ==
    LET b0 == df
        b1 == IF vf # {} THEN isin(b0, "Vendor", vf) ELSE b0
        b2 == IF lf # {} THEN isin(b1, "Location", lf) ELSE b1
    IN  b2

\* TRUE when lines 171-180 raise re.error
search_raises(qry) == qry # <<>> /\ re_compile_raises(strip(qry))

\* lines 170-180
filtered_df_of(df, vf, lf, qry) ==
    LET base == base_filtered_of(df, vf, lf)
    IN  IF qry # <<>> THEN Mask(base, search_mask(base, strip(qry))) ELSE base

\* (line 181 counting the filtered table twice)
caption_of_filtered(filtered, df) == [shown |-> len(filtered), total |-> len(filtered)]

\* line 181: "Showing {len(filtered_df)} of {len(sam)} records"
caption_of(filtered, df) == [shown |-> len(filtered), total |-> len(df)]

\* sorted(sam[col].unique()), the options of a multiselect (lines 162-163)
options(df, col) == {df.rows[i][col] : i \in 1..len(df)}

----------------------------------------------------------------------------
(* Tab 2 and Tab 4: per-vendor aggregation *)

\* sam.groupby("Vendor")[col].sum() at one vendor, for a required (always
\* populated) numeric column
group_sum(df, vendor, col) ==
    SumSeq([i \in 1..len(df) |->
              IF df.rows[i]["Vendor"] = vendor THEN df.rows[i][col] ELSE 0])

\* the same for CostPerLicense, whose NaN cells the sum skips
group_cost(df, vendor) ==
    SumSeq([i \in 1..len(df) |->
              IF df.rows[i]["Vendor"] = vendor
              THEN Num(df.rows[i]["CostPerLicense"]) ELSE 0])

\* (sam["ActualUsage"] * sam["CostPerLicense"]).sum(), line 195
usage_cost(df) ==
    SumSeq([i \in 1..len(df) |->
              df.rows[i]["ActualUsage"] * Num(df.rows[i]["CostPerLicense"])])

\* lines 194-198
savings_opportunity_of(df, bdg) ==
    LET actual_spend    == entitled_cost(df)
        effective_spend == usage_cost(df)
        overspend       == Max(0, actual_spend - bdg)
        unused_waste    == Max(0, actual_spend - effective_spend)
    IN  overspend + unused_waste

\* (lines 200-201 without the groupby: a vendor complies when each of its rows does)
compliance_rate_by_row(df) ==
    LET vendors == options(df, "Vendor")
        compliant_vendors ==
            Cardinality({v \in vendors :
                \A i \in 1..len(df) :
                    df.rows[i]["Vendor"] = v =>
                        df.rows[i]["ActualUsage"] <= df.rows[i]["EntitledLicenses"]})
        total_vendors == Cardinality(vendors)
    IN  IF total_vendors # 0
        THEN [num |-> compliant_vendors * 100, den |-> total_vendors]
        ELSE [num |-> 0, den |-> 1]

\* lines 200-203: the rate as the fraction num / den
compliance_rate_of(df) ==
    LET vendors == options(df, "Vendor")
        compliant_vendors ==
            Cardinality({v \in vendors :
                group_sum(df, v, "ActualUsage") <= group_sum(df, v, "EntitledLicenses")})
        total_vendors == Cardinality(vendors)
    IN  IF total_vendors # 0
        THEN [num |-> compliant_vendors * 100, den |-> total_vendors]
        ELSE [num |-> 0, den |-> 1]

\* The vendors in the order groupby lists them; only sums over them are taken,
\* so any fixed order serves.
RECURSIVE SortedVendors(_)
SortedVendors(S) ==
    IF S = {} THEN <<>>
    ELSE LET v == CHOOSE x \in S : TRUE IN <<v>> \o SortedVendors(S \ {v})

PenaltyPerUnit == 200

\* (lines 276 and 278 without the clamp)
unclipped(x) == x

\* Series.clip(lower=0) of one value, and max(0, x) of line 276
clip_lower0(x) == Max(0, x)

\* lines 274-278, one record per vendor
comp_of(df) ==
    [v \in options(df, "Vendor") |->
        LET e == group_sum(df, v, "EntitledLicenses")
            u == group_sum(df, v, "ActualUsage")
            c == group_cost(df, v)
        IN  [EntitledLicenses |-> e, ActualUsage |-> u, CostPerLicense |-> c,
             OverUsage        |-> u - e,
             PenaltyRisk      |-> clip_lower0(u - e) * PenaltyPerUnit,
             UnderUtilization |-> e - u,
             WastedSpend      |-> clip_lower0(e - u) * c]]

----------------------------------------------------------------------------
(* Tab 4: scenario planning, lines 323-345 *)

\* (line 324 without .clip(lower=0))
ShelfwareSavingsUnclipped(df, v) ==
    (group_sum(df, v, "EntitledLicenses") - group_sum(df, v, "ActualUsage"))
    * group_cost(df, v)

\* lines 323-325 at one vendor
ShelfwareSavings(df, v) ==
    LET UnusedLicenses ==
            clip_lower0(group_sum(df, v, "EntitledLicenses")
                        - group_sum(df, v, "ActualUsage"))
    IN  UnusedLicenses * group_cost(df, v)

\* line 327
total_shelfware(df) ==
    LET vs == SortedVendors(options(df, "Vendor"))
    IN  SumSeq([k \in 1..Len(vs) |-> ShelfwareSavings(df, vs[k])])

base_downgrade_savings == 65000

consolidation_savings == 40000

\* line 338: the Microsoft 365 E5/E3 rows used at most once
m365_mask(df) ==
    [i \in 1..len(df) |->
        /\ df.rows[i]["Vendor"] = Microsoft365
        /\ df.rows[i]["Edition"] \in {Some("E5"), Some("E3")}
        /\ df.rows[i]["ActualUsage"] <= 1]

\* line 339 for one row, in tenths of a dollar: 0.8 or 0.4 of CostPerLicense
savings_per(row) ==
    IF row["Edition"] = Some("E5")
    THEN 8 * row["CostPerLicense"][1]
    ELSE 4 * row["CostPerLicense"][1]

\* lines 337-342, in tenths of a dollar; NA when the NumPy sum of line 340
\* meets a NaN CostPerLicense (ndarray.sum does not skip NaN).
potential_downgrade_savings(df) ==
    IF "Edition" \in df.cols
    THEN LET m365 == Mask(df, m365_mask(df))
         IN  IF \E i \in 1..len(m365) : IsNA(m365.rows[i]["CostPerLicense"])
             THEN NA
             ELSE Some(SumSeq([i \in 1..len(m365) |-> savings_per(m365.rows[i])]))
    ELSE Some(base_downgrade_savings * 10)

\* lines 335, 344, 345, in thousandths of a dollar:
\*   total_shelfware * rec/100 + potential * dwn/100 + consolidation_savings
scenario_total_of(df, rec, dwn) ==
    LET pot == potential_downgrade_savings(df)
    IN  IF IsNA(pot) THEN NA
        ELSE Some(total_shelfware(df) * rec * 10
                  + pot[1] * dwn
                  + consolidation_savings * 1000)

----------------------------------------------------------------------------
(* Copies and column writes: renewals_df (lines 228-229), df_cost (260-261) *)

\* A DataFrame object as a name holds it: the table, and whether the object is
\* the one the name sam is bound to.  A column assignment writes into the
\* object, so it shows through every name bound to that object.
view(df) == [shared |-> TRUE, df |-> df]

\* sam.copy(): a new object with the rows and columns of df.
copy(df) == [shared |-> FALSE, df |-> df]

\* obj[name] = values
setitem(obj, name, values) == [obj EXCEPT !.df = SetCol(obj.df, name, values)]

\* What the name sam holds once obj has been written to.
seen_through(df, obj) == IF obj.shared THEN obj.df ELSE df

\* .dt.to_period("Q").astype(str) of line 229, on a date counted in days from
\* today: the number of the quarter the date falls in, today's quarter being 0
\* and starting today, every quarter 91 days long (calendar quarters have 90 to
\* 92 days).  NA stands for the label "NaT".
to_period_Q(cell) == IF IsNA(cell) THEN NA ELSE Some(cell[1] \div 91)

\* line 229
Quarter(df) == [i \in 1..len(df) |-> to_period_Q(df.rows[i]["ContractEndDate"])]

\* sam["ContractEndDate"].between(today, today + 365 days), line 246
between(cell, low, high) == ~IsNA(cell) /\ low <= cell[1] /\ cell[1] <= high

\* What line 246 can do: when no contract ends in the next 365 days the frame
\* handed to groupby.apply has no rows; apply then returns an empty DataFrame
\* in some pandas versions, whose reset_index(name=...) raises TypeError, and
\* an empty Series in others.
line246_outcomes(df) ==
    IF \E i \in 1..len(df) : between(df.rows[i]["ContractEndDate"], Today, Today + 365)
    THEN {"returns"} ELSE {"raises", "returns"}

\* line 261
TotalCost(df) ==
    [i \in 1..len(df) |->
        IF IsNA(df.rows[i]["CostPerLicense"]) THEN NA
        ELSE Some(df.rows[i]["EntitledLicenses"] * df.rows[i]["CostPerLicense"][1])]

----------------------------------------------------------------------------
(* Displays drawn from np.random at every pass: lines 314-315 and 405-417 *)

\* line 313-314
cols_show(df) ==
    {"EmployeeID", "DeviceID", "Location", "Department", "Vendor", "Product",
     "Edition", "ProductVersion"} \cap df.cols

\* df[cols]
getitem(df, cols) ==
    [cols |-> cols, rows |-> [i \in 1..len(df) |-> [c \in cols |-> df.rows[i][c]]]]

Min(a, b) == IF a <= b THEN a ELSE b

\* rows without its j-th element
without(rows, j) == [k \in 1..(Len(rows) - 1) |-> IF k < j THEN rows[k] ELSE rows[k + 1]]

\* DataFrame.sample(n), without replacement, on np.random's global stream: the
\* raw draw i, i+1, ... each points at one of the rows not picked yet.
RECURSIVE pick(_, _, _, _)
pick(rows, n, stream, i) ==
    IF n = 0 THEN <<>>
    ELSE LET j == (Draw(stream, i) % Len(rows)) + 1
         IN  <<rows[j]>> \o pick(without(rows, j), n - 1, stream, i + 1)

sample(df, n, stream) == pick(df.rows, n, stream, 1)

\* The raw draws lines 408-415 take: eight columns of ten values.
rightsizing_draws == 8 * 10

\* line 415: np.random.randint(150, 1200, 10), the last ten of those draws.
MonthlySavings(stream) == [k \in 1..10 |-> randint(150, 1200, Draw(stream, 70 + k))]

----------------------------------------------------------------------------
(* The script as a state machine *)

\* A fresh Python namespace: what the script's variables hold before the
\* line that assigns them has run (pc tells which of them are assigned).
Unassigned ==
    /\ sam' = EmptyDF
    /\ src_tag' = ""
    /\ k3_unused' = 0
    /\ monthly' = <<>>
    /\ anomalies' = <<>>
    /\ anomaly_banner' = ""
    /\ filtered_df' = EmptyDF
    /\ caption' = [shown |-> 0, total |-> 0]
    /\ savings_opportunity' = 0
    /\ compliance_rate' = [num |-> 0, den |-> 1]
    /\ renewals_df' = EmptyDF
    /\ df_cost' = EmptyDF
    /\ comp' = <<>>
    /\ sec_sample' = <<>>
    /\ rightsizing' = <<>>
    /\ scenario_total' = NA
    /\ rendered' = {}

\* A memo that never has the entry: the body runs at every call.
cache_miss(memo) == FALSE

\* st.cache_data, line 12: the memo has an entry for load_sam(), so the call
\* returns the stored table and the body does not run.
cache_hit(memo) == memo # <<>>

\* line 60: sam = load_sam(), through st.cache_data
Load ==
    /\ pc = "load"
    /\ IF cache_hit(cache)
       THEN /\ sam' = cache[1]
            /\ pc' = "banner"
            /\ UNCHANGED <<cache, rng, reads>>
       ELSE IF load_sam_raises(enhanced_csv, legacy_csv)
       THEN /\ pc' = "error"
            /\ reads' = load_sam_reads(enhanced_csv)
            /\ UNCHANGED <<sam, cache, rng>>
       ELSE /\ sam' = load_sam(enhanced_csv, legacy_csv, rng)
            /\ reads' = load_sam_reads(enhanced_csv)
            /\ cache' = <<sam'>>
            /\ rng' = Advance(rng, load_sam_draws(enhanced_csv, legacy_csv))
            /\ pc' = "banner"
    /\ UNCHANGED <<files, src_tag, tab1, tab2, tab3, tab4, widgets, rendered>>

\* lines 63-68
Banner ==
    /\ pc = "banner"
    /\ IF banner_raises(sam)
       THEN pc' = "error" /\ UNCHANGED src_tag
       ELSE pc' = "tab1" /\ src_tag' = src_tag_of(sam)
    /\ UNCHANGED <<files, rng, cache, reads, sam, tab1, tab2, tab3, tab4, widgets, rendered>>

\* What line 126 can do: on a cloud table without rows groupby.apply returns
\* an empty DataFrame in some pandas versions, whose reset_index(name=...)
\* raises TypeError, and an empty Series in others.
line126_outcomes(cloud) ==
    IF cloud = <<<<>>>> THEN {"raises", "returns"} ELSE {"returns"}

\* lines 95-184.  KeyError at line 110 without LastUsedDays; KeyError at line
\* 82 without CostPerLicense when there is no cloud file; re.error at line 174.
Tab1 ==
    /\ pc = "tab1"
    /\ IF "LastUsedDays" \notin sam.cols
       THEN pc' = "error" /\ UNCHANGED <<tab1, rendered>>
       ELSE /\ k3_unused' = idle_count(sam)
            /\ \E outcome \in line126_outcomes(cloud_csv) :
               IF \/ cloud_csv = <<>> /\ "CostPerLicense" \notin sam.cols
                  \/ outcome = "raises"
               THEN /\ pc' = "error"
                    /\ UNCHANGED <<monthly, anomalies, anomaly_banner,
                                   filtered_df, caption, rendered>>
               ELSE /\ monthly' = with_anomaly(monthly_of(cloud_csv, sam, synth_noise))
                    /\ anomalies' = anomalies_of(monthly')
                    /\ anomaly_banner' = banner_of(anomalies')
                    /\ rendered' = rendered \cup {"vendor_filter", "location_filter", "query"}
                    /\ IF search_raises(query)
                       THEN pc' = "error" /\ UNCHANGED <<filtered_df, caption>>
                       ELSE /\ filtered_df' = filtered_df_of(sam, vendor_filter,
                                                             location_filter, query)
                            /\ caption' = caption_of(filtered_df', sam)
                            /\ pc' = "tab2"
    /\ UNCHANGED <<files, rng, cache, reads, sam, src_tag, tab2, tab3, tab4, widgets>>

\* lines 189-288.  KeyError at line 194 without CostPerLicense, at line 283
\* without Department; line 246 may raise (line246_outcomes).
Tab2 ==
    /\ pc = "tab2"
    /\ rendered' = rendered \cup {"budget"}
    /\ IF "CostPerLicense" \notin sam.cols
       THEN pc' = "error" /\ UNCHANGED <<sam, tab2>>
       ELSE LET renewals == setitem(copy(sam), "Quarter", Quarter(sam))
                sam1 == seen_through(sam, renewals)
            IN  /\ savings_opportunity' = savings_opportunity_of(sam, budget)
                /\ compliance_rate' = compliance_rate_of(sam)
                /\ renewals_df' = renewals.df
                /\ \E outcome \in line246_outcomes(sam1) :
                   IF outcome = "raises"
                   THEN /\ pc' = "error"
                        /\ sam' = sam1
                        /\ UNCHANGED <<df_cost, comp>>
                   ELSE LET cost == setitem(copy(sam1), "TotalCost", TotalCost(sam1))
                            sam2 == seen_through(sam1, cost)
                        IN  /\ df_cost' = cost.df
                            /\ sam' = sam2
                            /\ comp' = comp_of(sam2)
                            /\ pc' = IF "Department" \in sam2.cols
                                     THEN "tab3" ELSE "error"
    /\ UNCHANGED <<files, rng, cache, reads, src_tag, tab1, tab3, tab4, widgets>>

\* lines 293-315: the security table needs IsEOL, KnownVulns and DaysSincePatch
\* (KeyError at line 301 otherwise); the inventory table of line 315 shows
\* min(50, len(sam)) rows drawn with np.random.
Tab3 ==
    /\ pc = "tab3"
    /\ IF {"IsEOL", "KnownVulns", "DaysSincePatch"} \subseteq sam.cols
       THEN LET n == Min(50, len(sam))
            IN  /\ sec_sample' = sample(getitem(sam, cols_show(sam)), n, rng)
                /\ rng' = Advance(rng, n)
                /\ pc' = "tab4"
       ELSE pc' = "error" /\ UNCHANGED <<sec_sample, rng>>
    /\ UNCHANGED <<files, cache, reads, sam, src_tag, tab1, tab2, tab4, widgets, rendered>>

\* lines 320-417; without a cloud file the rightsizing table is simulated with
\* np.random (lines 405-417).  Tab 5 (lines 422-486) shows constant tables only.
Tab4 ==
    /\ pc = "tab4"
    /\ rendered' = rendered \cup {"rec_rate", "dwn_rate"}
    /\ scenario_total' = scenario_total_of(sam, rec_rate, dwn_rate)
    /\ IF cloud_csv = <<>>
       THEN /\ rightsizing' = MonthlySavings(rng)
            /\ rng' = Advance(rng, rightsizing_draws)
       ELSE UNCHANGED <<rightsizing, rng>>
    /\ pc' = "done"
    /\ UNCHANGED <<files, cache, reads, sam, src_tag, tab1, tab2, tab3, widgets>>

\* A widget change makes Streamlit run the script again from line 1.
Rerun == pc' = "load" /\ Unassigned /\ UNCHANGED <<files, rng, cache, reads>>

\* The pass is over (completed, or stopped by an exception) and the page waits
\* for the user.
Waiting == pc \in {"done", "error"}

----------------------------------------------------------------------------
(* Widgets *)

MaxQueryLen == 2

QueryAlphabet == {"z", "1", " ", ".", "("}

Queries == UNION {[1..n -> QueryAlphabet] : n \in 0..MaxQueryLen}

DefaultBudget == 2800000

BudgetStep == 50000

Budgets == {0, DefaultBudget, DefaultBudget + BudgetStep}

DefaultRecRate == 40

DefaultDwnRate == 30

SliderStops == {0, DefaultDwnRate, DefaultRecRate, 100}

SetVendorFilter ==
    /\ Waiting /\ "vendor_filter" \in rendered
    /\ \E sel \in SUBSET options(sam, "Vendor") :
          sel # vendor_filter /\ vendor_filter' = sel
    /\ UNCHANGED <<location_filter, query, budget, rec_rate, dwn_rate>>
    /\ Rerun

SetLocationFilter ==
    /\ Waiting /\ "location_filter" \in rendered
    /\ \E sel \in SUBSET options(sam, "Location") :
          sel # location_filter /\ location_filter' = sel
    /\ UNCHANGED <<vendor_filter, query, budget, rec_rate, dwn_rate>>
    /\ Rerun

SetQuery ==
    /\ Waiting /\ "query" \in rendered
    /\ \E q \in Queries : q # query /\ query' = q
    /\ UNCHANGED <<vendor_filter, location_filter, budget, rec_rate, dwn_rate>>
    /\ Rerun

SetBudget ==
    /\ Waiting /\ "budget" \in rendered
    /\ \E b \in Budgets : b # budget /\ budget' = b
    /\ UNCHANGED <<vendor_filter, location_filter, query, rec_rate, dwn_rate>>
    /\ Rerun

SetRecRate ==
    /\ Waiting /\ "rec_rate" \in rendered
    /\ \E r \in SliderStops : r # rec_rate /\ rec_rate' = r
    /\ UNCHANGED <<vendor_filter, location_filter, query, budget, dwn_rate>>
    /\ Rerun

SetDwnRate ==
    /\ Waiting /\ "dwn_rate" \in rendered
    /\ \E r \in SliderStops : r # dwn_rate /\ dwn_rate' = r
    /\ UNCHANGED <<vendor_filter, location_filter, query, budget, rec_rate>>
    /\ Rerun

\* One pass of the script, section by section.
Pass == Load \/ Banner \/ Tab1 \/ Tab2 \/ Tab3 \/ Tab4

----------------------------------------------------------------------------
(* Input files *)

NewYork == <<"N","Y">>

Lisbon  == <<"L","i","s">>

BaseRow ==
    [EmployeeID |-> 7, DeviceID |-> <<"d","1">>, Vendor |-> Zoom,
     Product |-> <<"M","e","e","t">>, Location |-> NewYork,
     EntitledLicenses |-> 10, ActualUsage |-> 8, DeploymentType |-> "Cloud",
     CostPerLicense |-> Some(12), LastUsedDays |-> Some(0),
     Department |-> Some("IT"), ContractEndDate |-> Some(100),
     IsEOL |-> Some(0), KnownVulns |-> Some(0), DaysSincePatch |-> Some(30),
     Edition |-> Some("E3"), LicenseType |-> Some("Subscription")]

AllCols == RequiredCols \cup OptionalCols

\* A file with the given header whose rows are the given records, cut to the
\* header.
File(cols, recs) ==
    [cols |-> cols, rows |-> [i \in 1..Len(recs) |-> [c \in cols |-> recs[i][c]]]]

\* All sequences of at most n elements of S.
SeqsUpTo(S, n) == UNION {[1..k -> S] : k \in 0..n}

\* The start of a session: the files on disk, an empty cache, the widgets at
\* their defaults and the script about to run.
InitWith(enhs, legs, clouds, streams, noises) ==
    /\ enhanced_csv \in enhs
    /\ legacy_csv \in legs
    /\ cloud_csv \in clouds
    /\ rng \in streams
    /\ synth_noise \in noises
    /\ cache = <<>>
    /\ reads = <<>>
    /\ pc = "load"
    /\ sam = EmptyDF
    /\ src_tag = ""
    /\ k3_unused = 0
    /\ monthly = <<>>
    /\ anomalies = <<>>
    /\ anomaly_banner = ""
    /\ filtered_df = EmptyDF
    /\ caption = [shown |-> 0, total |-> 0]
    /\ savings_opportunity = 0
    /\ compliance_rate = [num |-> 0, den |-> 1]
    /\ renewals_df = EmptyDF
    /\ df_cost = EmptyDF
    /\ comp = <<>>
    /\ sec_sample = <<>>
    /\ rightsizing = <<>>
    /\ scenario_total = NA
    /\ rendered = {}
    /\ vendor_filter = {}
    /\ location_filter = {}
    /\ query = <<>>
    /\ budget = DefaultBudget
    /\ rec_rate = DefaultRecRate
    /\ dwn_rate = DefaultDwnRate

\* A complete file of one row, a stream of one draw, and the factors of a
\* flat year: what a specification uses where it does not vary the input.
PlainFile == File(AllCols, <<BaseRow>>)

PlainStream == <<0>>

FlatYear == [i \in 1..months |-> 10]

----------------------------------------------------------------------------
(* load_sam on its own: every header, rows with and without an empty cell *)

MaxLoadRows == 2

\* The vendor of row i: one that cost_map prices and one that it does not.
LoadRow(i) == [BaseRow EXCEPT !.Vendor = IF i % 2 = 1 THEN Zoom ELSE Acme]

\* A file with the optional columns opt and n rows; the cell (row, column)
\* hole, if it is a cell of the file, is empty.
LoadFile(opt, n, hole) ==
    [cols |-> RequiredCols \cup opt,
     rows |-> [i \in 1..n |->
                 [c \in RequiredCols \cup opt |->
                     IF <<i, c>> = hole THEN NA ELSE LoadRow(i)[c]]]]

NoHole == <<0, "">>

LoadFiles ==
    UNION {UNION {{LoadFile(opt, n, hole) : hole \in {NoHole} \cup ((1..n) \X opt)}
                  : n \in 0..MaxLoadRows}
           : opt \in SUBSET OptionalCols}

\* The raw values a draw can take: enough for every residue of randint(30, 365)
\* and one more.
RawDraws == 0..(365 - 30)

EdgeDraws == {0, 365 - 31}

\* A legacy file of two rows without ContractEndDate.
UndatedFile == File(AllCols \ {"ContractEndDate"}, <<LoadRow(1), LoadRow(2)>>)

InitLoad ==
    \/ InitWith(LoadFiles, {PlainFile}, {<<>>}, {PlainStream}, {FlatYear})
    \/ InitWith({MISSING}, LoadFiles \cup {MISSING}, {<<>>},
                [1..MaxLoadRows -> EdgeDraws], {FlatYear})
    \/ InitWith({MISSING}, {UndatedFile}, {<<>>},
                [1..Len(UndatedFile.rows) -> RawDraws], {FlatYear})
    \/ InitWith({PlainFile, UndatedFile}, {MISSING}, {<<>>}, {PlainStream}, {FlatYear})

SpecLoad == InitLoad /\ [][Load]_vars

----------------------------------------------------------------------------
(* The views of tabs 1 and 2 over varied tables, widgets at their defaults *)

MaxMetricRows == 3

\* (EntitledLicenses, ActualUsage) of a row: over-used, under-used, exact.
MetricUsage == {<<10, 12>>, <<5, 3>>, <<20, 20>>}

\* A vendor with its price.
MetricVendors == {<<Zoom, 5>>, <<OracleDB, 2>>}

MetricRows ==
    {[BaseRow EXCEPT !.Vendor = vc[1], !.CostPerLicense = Some(vc[2]),
                     !.EntitledLicenses = eu[1], !.ActualUsage = eu[2]]
       : vc \in MetricVendors, eu \in MetricUsage}

MetricFiles == {File(AllCols, recs) : recs \in SeqsUpTo(MetricRows, MaxMetricRows)}

MaxIdleRows == 4

IdleDays == {0, 10, idle_threshold - 1, idle_threshold, 95, 120}

IdleRows == {[BaseRow EXCEPT !.LastUsedDays = Some(d)] : d \in IdleDays}

IdleFiles == {File(AllCols, recs) : recs \in SeqsUpTo(IdleRows, MaxIdleRows)}

MaxCloudRows == 6

MaxSpend == 1

\* cloud_spend.csv with one row per month; with dup, the last row is a second
\* row of the month before it.
CloudFile(spend, dup) ==
    [i \in 1..Len(spend) |->
        [Month |-> IF dup /\ i = Len(spend) /\ i > 1 THEN i - 1 ELSE i,
         OnDemandCost |-> spend[i], DiscountedCost |-> 1]]

CloudFiles ==
    {<<CloudFile(spend, dup)>> :
        spend \in SeqsUpTo(0..MaxSpend, MaxCloudRows), dup \in BOOLEAN}

\* The factors of the synthetic year, in tenths: level, or a spike of 0.3.
SynthYears == [1..months -> {10, 13}]

MaxRenewalRows == 2

\* Contract end dates at and around the two ends of the renewal window of
\* line 246 (today and today + 365 days), and a missing date.
RenewalDates == {NA, Some(Today - 1), Some(Today), Some(Today + 365), Some(Today + 366)}

RenewalRows == {[BaseRow EXCEPT !.ContractEndDate = d] : d \in RenewalDates}

RenewalFiles == {File(AllCols, recs) : recs \in SeqsUpTo(RenewalRows, MaxRenewalRows)}

InitViews ==
    \/ InitWith(MetricFiles \cup IdleFiles \cup RenewalFiles, {PlainFile}, {<<>>},
                {PlainStream}, {FlatYear})
    \/ InitWith({PlainFile}, {PlainFile}, CloudFiles, {PlainStream}, {FlatYear})
    \/ InitWith({PlainFile}, {PlainFile}, {<<>>}, {PlainStream}, SynthYears)

SpecViews == InitViews /\ [][Pass]_vars

----------------------------------------------------------------------------
(* The record table under the vendor and location filters and the search box *)

MaxFilterRows == 2

\* "z" is in the first row only (its vendor, in capitals) and "1" in the second
\* only (its employee number).
FilterRows ==
    {[BaseRow EXCEPT !.EmployeeID = 7,  !.DeviceID = <<"d","2">>,
                     !.Vendor = Zoom, !.Location = NewYork],
     [BaseRow EXCEPT !.EmployeeID = 10, !.DeviceID = <<"d","2">>,
                     !.Vendor = OracleDB, !.Location = Lisbon]}

FilterFiles == {File(AllCols, recs) : recs \in SeqsUpTo(FilterRows, MaxFilterRows)}

InitFilter == InitWith(FilterFiles, {PlainFile}, {<<>>}, {PlainStream}, {FlatYear})

NextFilter == Pass \/ SetVendorFilter \/ SetLocationFilter \/ SetQuery

SpecFilter == InitFilter /\ [][NextFilter]_vars

----------------------------------------------------------------------------
(* Scenario planning under the two sliders *)

MaxScenarioRows == 2

ScenarioRows ==
    {[BaseRow EXCEPT !.Vendor = ve[1], !.Edition = Some(ve[2]),
                     !.EntitledLicenses = eu[1], !.ActualUsage = eu[2]]
       : ve \in {<<Microsoft365, "E5">>, <<Microsoft365, "E3">>, <<Zoom, "Standard">>},
         eu \in {<<10, 1>>, <<5, 8>>}}

ScenarioFiles ==
    {File(cols, recs) : cols \in {AllCols, AllCols \ {"Edition"}},
                        recs \in SeqsUpTo(ScenarioRows, MaxScenarioRows)}

InitScenario == InitWith(ScenarioFiles, {PlainFile}, {<<>>}, {PlainStream}, {FlatYear})

NextScenario == Pass \/ SetRecRate \/ SetDwnRate

SpecScenario == InitScenario /\ [][NextScenario]_vars

----------------------------------------------------------------------------
(* A whole session: every widget, over a few files *)

\* No enhanced file: every session goes through the fallback.
SessionFiles == {MISSING}

\* The legacy file has no ContractEndDate, so a fallback synthesises the dates
\* from the first draws of the stream.
Init == InitWith(SessionFiles, {UndatedFile}, {<<>>}, {<<0, 1, 2>>}, {FlatYear})

Next ==
    \/ Pass
    \/ SetVendorFilter \/ SetLocationFilter \/ SetQuery
    \/ SetBudget \/ SetRecRate \/ SetDwnRate

Spec == Init /\ [][Next]_vars

----------------------------------------------------------------------------
(* Properties *)

\* What the properties say is written here from the tables themselves, not
\* with the operators above.

\* The rows of df sold by vendor v.
RowsOf(df, v) == {i \in 1..len(df) : df.rows[i]["Vendor"] = v}

\* The total of a required numeric column over the rows I.
RECURSIVE TotalAt(_, _, _)
TotalAt(df, I, col) ==
    IF I = {} THEN 0
    ELSE LET i == CHOOSE x \in I : TRUE
         IN  df.rows[i][col] + TotalAt(df, I \ {i}, col)

\* The total of CostPerLicense over the rows I.
RECURSIVE CostAt(_, _)
CostAt(df, I) ==
    IF I = {} THEN 0
    ELSE LET i == CHOOSE x \in I : TRUE
         IN  df.rows[i]["CostPerLicense"][1] + CostAt(df, I \ {i})

VendorsOf(df) == {df.rows[i]["Vendor"] : i \in 1..len(df)}

Usage(df, v) == TotalAt(df, RowsOf(df, v), "ActualUsage")

Entitled(df, v) == TotalAt(df, RowsOf(df, v), "EntitledLicenses")

\* load_sam has returned.
Loaded == pc \notin {"load", "error"} \/ (pc = "error" /\ cache # <<>>)

\* Tab 1 has reached the anomaly banner; the search box is drawn in the
\* same section, just before the search itself runs.
AnomaliesShown == anomaly_banner # ""

SearchRun == "query" \in rendered

Tab1Done == pc \in {"tab2", "tab3", "tab4", "done"}

Tab2Done == pc \in {"tab3", "tab4", "done"}

\* C1: every record of the table load_sam returns has each of the nine
\* optional columns, and a value in it.
C1_AllFieldsPopulated ==
    Loaded =>
        \A i \in 1..len(sam) : \A c \in OptionalCols :
            c \in sam.cols /\ ~IsNA(sam.rows[i][c])

\* C10: when load_sam synthesises ContractEndDate, every record's date is
\* today plus an offset in 30..365, and every offset of 30..365 is one that a
\* draw can give.
C10_OffsetsInclusive ==
    (Loaded /\ load_sam_draws(enhanced_csv, legacy_csv) > 0) =>
        /\ \A i \in 1..len(sam) :
              sam.rows[i]["ContractEndDate"][1] - Today \in 30..365
        /\ \A d \in 30..365 : \E raw \in RawDraws : randint(30, 365, raw) = d

\* C2: the compliance rate shown is 100 * (vendors whose total usage is at
\* most their total entitlement) / (vendors), lies between 0 and 100, and
\* the same expression gives 0 on a table without vendors.
C2_ComplianceRate ==
    /\ Tab2Done =>
         LET V  == VendorsOf(sam)
             ok == {v \in V : Usage(sam, v) <= Entitled(sam, v)}
         IN  /\ compliance_rate.den > 0
             /\ compliance_rate.num * Cardinality(V)
                  = 100 * Cardinality(ok) * compliance_rate.den
             /\ 0 <= compliance_rate.num
             /\ compliance_rate.num <= 100 * compliance_rate.den
    /\ compliance_rate_of(File(AllCols, <<>>)).num = 0

\* A vendor with an over-used row and an under-used row whose totals are
\* equal, in a table all of whose vendors are counted compliant.
C2_Witness ==
    /\ Tab2Done
    /\ compliance_rate.num = 100 * compliance_rate.den
    /\ \E v \in VendorsOf(sam) : \E i, j \in RowsOf(sam, v) :
          /\ sam.rows[i]["ActualUsage"] > sam.rows[i]["EntitledLicenses"]
          /\ sam.rows[j]["ActualUsage"] < sam.rows[j]["EntitledLicenses"]
          /\ Usage(sam, v) = Entitled(sam, v)

\* The literal, case-blind reading of the search box: q occurs in t.
OccursIn(q, t) ==
    \E start \in 0..(Len(t) - Len(q)) :
        \A k \in 1..Len(q) : Lower(q[k]) = Lower(t[start + k])

\* The text of a searchable cell.
TextOf(col, cell) == IF col = "EmployeeID" THEN Digits(cell) ELSE cell

Blank(q) == \A k \in 1..Len(q) : q[k] = " "

\* The query without the blanks around it.
Trimmed(q) ==
    IF Blank(q) THEN <<>>
    ELSE LET a == CHOOSE k \in 1..Len(q) : q[k] # " " /\ \A j \in 1..(k - 1) : q[j] = " "
             b == CHOOSE k \in 1..Len(q) : q[k] # " " /\ \A j \in (k + 1)..Len(q) : q[j] = " "
         IN  SubSeq(q, a, b)

\* Row i of df passes the selections and the query.
Passes(df, i, vf, lf, q) ==
    /\ vf # {} => df.rows[i]["Vendor"] \in vf
    /\ lf # {} => df.rows[i]["Location"] \in lf
    /\ \/ Blank(q)
       \/ \E c \in {"EmployeeID", "DeviceID", "Location", "Vendor", "Product"} :
             OccursIn(Trimmed(q), TextOf(c, df.rows[i][c]))

\* The rows of df at the indices I, in order.
RECURSIVE RowsAt(_, _, _)
RowsAt(df, I, i) ==
    IF i > len(df) THEN <<>>
    ELSE (IF i \in I THEN <<df.rows[i]>> ELSE <<>>) \o RowsAt(df, I, i + 1)

\* C3: once the search has run, the pass has not failed and the rows shown
\* are exactly the rows that pass the selections and contain the query text.
C3_LiteralSearch ==
    SearchRun =>
        /\ pc # "error"
        /\ filtered_df.rows =
             RowsAt(sam, {i \in 1..len(sam) :
                            Passes(sam, i, vendor_filter, location_filter, query)}, 1)

\* C4: with nothing selected and a blank query, the table shown is the raw
\* table.
C4_NoFilterIsIdentity ==
    (SearchRun /\ vendor_filter = {} /\ location_filter = {} /\ Blank(query)) =>
        pc # "error" /\ filtered_df = sam

\* A query of one blank over a table of two different rows.
C4_Witness ==
    /\ pc = "done" /\ vendor_filter = {} /\ location_filter = {}
    /\ query = <<" ">>
    /\ len(sam) = 2 /\ sam.rows[1] # sam.rows[2]
    /\ filtered_df = sam

\* s is t with some of its elements left out.
RECURSIVE IsSubSeq(_, _)
IsSubSeq(s, t) ==
    IF s = <<>> THEN TRUE
    ELSE IF t = <<>> THEN FALSE
    ELSE IF Head(s) = Head(t) THEN IsSubSeq(Tail(s), Tail(t))
    ELSE IsSubSeq(s, Tail(t))

\* C5: the caption shows the number of rows of the filtered table and of the
\* raw table, the filtered rows are rows of the raw table, and the first
\* count is at most the second.
C5_CaptionCounts ==
    (SearchRun /\ pc # "error") =>
        /\ caption.shown = Len(filtered_df.rows)
        /\ caption.total = Len(sam.rows)
        /\ filtered_df.cols = sam.cols
        /\ IsSubSeq(filtered_df.rows, sam.rows)
        /\ caption.shown <= caption.total

\* Some rows, not all, are shown.
C5_Witness ==
    /\ pc = "done"
    /\ caption.shown > 0 /\ caption.shown < caption.total
    /\ query # <<>> /\ vendor_filter # {}

\* C6: for every vendor, penalty risk is max(0, usage - entitlement) * 200 and
\* wasted spend is max(0, entitlement - usage) * (total CostPerLicense), and
\* neither is negative.
C6_NonNegativeRisk ==
    Tab2Done =>
        /\ DOMAIN comp = VendorsOf(sam)
        /\ \A v \in DOMAIN comp :
              LET over  == Usage(sam, v) - Entitled(sam, v)
                  under == Entitled(sam, v) - Usage(sam, v)
              IN  /\ comp[v].PenaltyRisk >= 0
                  /\ comp[v].WastedSpend >= 0
                  /\ comp[v].PenaltyRisk = (IF over > 0 THEN over ELSE 0) * 200
                  /\ comp[v].WastedSpend
                       = (IF under > 0 THEN under ELSE 0) * CostAt(sam, RowsOf(sam, v))

\* One vendor under-used (its penalty clamped to 0) beside one over-used (its
\* waste clamped to 0).
C6_Witness ==
    /\ Tab2Done
    /\ \E v, w \in DOMAIN comp :
          /\ comp[v].OverUsage < 0 /\ comp[v].PenaltyRisk = 0 /\ comp[v].WastedSpend > 0
          /\ comp[w].OverUsage > 0 /\ comp[w].PenaltyRisk > 0 /\ comp[w].WastedSpend = 0

\* C7: the scenario total shown at the current reclaim rate is at least the
\* total at every lower rate and at most the total at every higher rate, the
\* table and the downgrade rate being the same.
C7_MonotoneInReclaim ==
    (pc = "done" /\ ~IsNA(scenario_total)) =>
        \A r \in 0..100 :
            LET other == scenario_total_of(sam, r, dwn_rate)[1]
            IN  /\ r <= rec_rate => other <= scenario_total[1]
                /\ r >= rec_rate => other >= scenario_total[1]

\* Full reclaim gives strictly more than none.
C7_Witness ==
    /\ pc = "done" /\ rec_rate = 100 /\ dwn_rate = DefaultDwnRate
    /\ scenario_total[1] > scenario_total_of(sam, 0, dwn_rate)[1]

\* Sum of the squares of a sequence of numbers.
RECURSIVE SumSq(_)
SumSq(s) == IF s = <<>> THEN 0 ELSE Head(s) * Head(s) + SumSq(Tail(s))

\* x > mean + 2 * (sample standard deviation) of the n >= 2 values s, with
\* S their sum and Q the sum of their squares:
\*   mean = S / n,  std^2 = (Q - S^2 / n) / (n - 1).
AboveTwoSigma(s, x) ==
    LET n == Len(s)
        S == SumSeq(s)
        Q == SumSq(s)
    IN  /\ n >= 2
        /\ n * x > S
        /\ (n * x - S) * (n * x - S) * (n - 1) > 4 * n * (n * Q - S * S)

\* C8: a month is flagged only if its spend is above mean + 2 std; nothing is
\* flagged, and the "no anomalies" message is shown, on a series of equal
\* values and on a series of fewer than two points.
C8_AnomalyRule ==
    AnomaliesShown =>
        LET s == [i \in 1..Len(monthly) |-> monthly[i].Spend]
        IN  /\ \A i \in 1..Len(monthly) :
                  monthly[i].Anomaly => AboveTwoSigma(s, s[i])
            /\ \A k \in 1..Len(anomalies) :
                  \E i \in 1..Len(monthly) :
                      monthly[i] = anomalies[k] /\ monthly[i].Anomaly
            /\ (anomalies # <<>>) = (anomaly_banner = "warning")
            /\ ((\A i, j \in 1..Len(s) : s[i] = s[j]) \/ Len(s) < 2) =>
                  anomalies = <<>> /\ anomaly_banner = "success"

\* A month is flagged.
C8_Witness ==
    /\ AnomaliesShown /\ anomaly_banner = "warning"
    /\ Len(anomalies) = 1
    /\ \A i \in 1..Len(monthly) : monthly[i].Spend <= anomalies[1].Spend

\* C9: the tile counts the rows whose LastUsedDays is 90 or more, and on
\* LastUsedDays = 0, 95, 120, 10 these are the second and third row.
C9_IdleCount ==
    Tab1Done =>
        /\ k3_unused = Cardinality({i \in 1..len(sam) : sam.rows[i]["LastUsedDays"][1] >= 90})
        /\ [i \in 1..len(sam) |-> sam.rows[i]["LastUsedDays"][1]] = <<0, 95, 120, 10>>
              => k3_unused = 2 /\ idle_mask(sam) = <<FALSE, TRUE, TRUE, FALSE>>

\* A row at 89 days is not counted and a row at 90 days is.
C9_Witness ==
    /\ Tab1Done
    /\ [i \in 1..len(sam) |-> sam.rows[i]["LastUsedDays"][1]] = <<89, 90>>
    /\ k3_unused = 1

----------------------------------------------------------------------------
(* The raw table is read-only *)

\* C11: once load_sam has returned, the name sam holds, at every point of
\* every pass, exactly the table load_sam returned: no tab adds, removes or
\* changes a row or a column of it.  The derived columns Quarter, TotalCost,
\* OverUsage and Anomaly are in the copies and the freshly built tables only.
C11_RawTableUntouched ==
    Loaded =>
        /\ sam = cache[1]
        /\ sam.cols \cap {"Quarter", "TotalCost", "OverUsage", "Anomaly"} = {}

\* A pass that ran to its end with a vendor selection that removes a row: the
\* filter, the renewal copy, the cost copy, the compliance table and the
\* anomaly series have all been computed.
C11_Witness ==
    /\ pc = "done"
    /\ vendor_filter # {}
    /\ len(filtered_df) < len(sam)
    /\ "Quarter" \in renewals_df.cols
    /\ "TotalCost" \in df_cost.cols
    /\ comp # <<>>
    /\ monthly # <<>>
    /\ len(sam) = MaxFilterRows

----------------------------------------------------------------------------
(* load_sam: which file is read, which tag is set, which defaults apply *)

\* The enhanced file is there and has the column line 15 parses as dates.
EnhancedReadable ==
    enhanced_csv # MISSING /\ "ContractEndDate" \in enhanced_csv.cols

\* C12: load_sam opens the enhanced file first and the legacy file only when
\* the enhanced read failed; it raises only when both reads fail.  The table
\* it returns has the rows of the file that was read, every row tagged
\* __enhanced__ = TRUE when that was the enhanced file and FALSE when the
\* fallback ran; the fallback leaves every cell of a column the legacy file
\* has as it is, except that an empty or unparseable ContractEndDate becomes
\* today.
C12_EnhancedFirst ==
    /\ reads # <<>> =>
          reads = IF EnhancedReadable
                  THEN <<"telemetry_data_enhanced.csv">>
                  ELSE <<"telemetry_data_enhanced.csv", "telemetry_data.csv">>
    /\ (pc = "error" /\ cache = <<>>) => (~EnhancedReadable /\ legacy_csv = MISSING)
    /\ Loaded =>
          LET src == IF EnhancedReadable THEN enhanced_csv ELSE legacy_csv
          IN  /\ "__enhanced__" \in sam.cols
              /\ src.cols \subseteq sam.cols
              /\ len(sam) = len(src)
              /\ \A i \in 1..len(sam) :
                    /\ sam.rows[i]["__enhanced__"] = EnhancedReadable
                    /\ \A c \in src.cols :
                          sam.rows[i][c] =
                             IF /\ ~EnhancedReadable
                                /\ c = "ContractEndDate"
                                /\ IsNA(src.rows[i][c])
                             THEN Some(Today)
                             ELSE src.rows[i][c]

\* The fallback ran on a legacy file that has Department (with a value other
\* than the default) and a ContractEndDate column with an empty cell, and has
\* no Edition column.
C12_Witness ==
    /\ Loaded
    /\ enhanced_csv = MISSING
    /\ reads = <<"telemetry_data_enhanced.csv", "telemetry_data.csv">>
    /\ len(sam) = MaxLoadRows
    /\ {"Department", "ContractEndDate"} \subseteq legacy_csv.cols
    /\ "Edition" \notin legacy_csv.cols
    /\ sam.rows[1]["Department"] # Some("Unknown")
    /\ sam.rows[1]["Edition"] = Some("Standard")
    /\ \E i \in 1..len(sam) :
          /\ IsNA(legacy_csv.rows[i]["ContractEndDate"])
          /\ sam.rows[i]["ContractEndDate"] = Some(Today)
    /\ \A i \in 1..len(sam) : sam.rows[i]["__enhanced__"] = FALSE

----------------------------------------------------------------------------
(* A session: everything shown is a function of the cached table and the
   current widget values *)

\* The values a pass has computed so far are those of the expressions of the
\* script on the table df and the current widget values.
ShownFrom(df) ==
    /\ Tab1Done =>
          /\ k3_unused = idle_count(df)
          /\ monthly = with_anomaly(monthly_of(cloud_csv, df, synth_noise))
          /\ anomalies = anomalies_of(monthly)
          /\ filtered_df = filtered_df_of(df, vendor_filter, location_filter, query)
          /\ caption = caption_of(filtered_df, df)
    /\ Tab2Done =>
          /\ savings_opportunity = savings_opportunity_of(df, budget)
          /\ compliance_rate = compliance_rate_of(df)
          /\ renewals_df = SetCol(df, "Quarter", Quarter(df))
          /\ df_cost = SetCol(df, "TotalCost", TotalCost(df))
          /\ comp = comp_of(df)
    /\ pc = "done" => scenario_total = scenario_total_of(df, rec_rate, dwn_rate)

====
